---- MODULE Spec2Model ----
(***************************************************************************)
(* DocTalk document processor: lambda_handler, process_document and the   *)
(* database operations they call, over one warm execution context.        *)
(*                                                                         *)
(* The store (documents, document_chunks) holds committed rows only; the  *)
(* rows a statement wrote inside a transaction that is still open live in *)
(* the operation that wrote them, and reach the store at conn.commit().   *)
(* External collaborators (S3, the LangChain loaders and splitter, the    *)
(* embedding provider, the PostgreSQL server) are inputs: each call draws *)
(* its outcome from the set of outcomes that collaborator can produce.    *)
(***************************************************************************)
EXTENDS Integers, Sequences, FiniteSets, TLC

\* ------------------------------------------------------------------ bounds
MaxRecords     == 2     \* SQS records delivered to one warm context, over all events
MaxChunks      == 2     \* chunks the splitter makes of one document
MaxUnits       == 2     \* pages/sections a loader returns

\* ------------------------------------------------------------- the inputs
Docs == {"d1", "d2"}                 \* ids of the rows of table documents
Keys == {"k1", "k2", "k3"}           \* S3 object keys; k3 has no document

\* documents.s3_key: the document a key belongs to, "none" when there is none
DocOfKey(k) == CASE k = "k1" -> "d1" [] k = "k2" -> "d2" [] OTHER -> "none"

\* the keys of the loaders dictionary of get_loader_for_file_type
loaders == {"application/pdf",
            "application/vnd.openxmlformats-officedocument.wordprocessingml.document",
            "text/plain", "text/markdown"}

\* documents.file_type: d1 is a PDF, d2 an image no loader exists for
file_type == [d \in Docs |-> IF d = "d1" THEN "application/pdf" ELSE "image/png"]

NoneVal == "None"                    \* Python's None / SQL NULL

\* one inner S3 notification of a message body: the bucket name and the object
\* key, NoneVal where the notification does not carry it
S3Events == [bucket : {NoneVal, "bucket"}, key : {NoneVal} \cup Keys]

\* the key of the further notification of a message that carries two
FurtherKey == "k1"

\* the notification lists a message body can carry: none, one, or two
\* notifications of which the second is a well-formed one for FurtherKey and
\* the first is for another key or for none
S3EventLists ==
    {<<>>} \cup {<<e>> : e \in S3Events} \cup
    {<<e, [bucket |-> "bucket", key |-> FurtherKey]>> :
        e \in {f \in S3Events : f.key # FurtherKey}}

\* an SQS record of event['Records']: body is "missing" (the record has no
\* 'body'), "unparsable" (json.loads fails) or "json"; a parsed body has an
\* Event marker or none, and a 'Records' list or none. A test event has no
\* list, or for once the list of an ordinary message.
SqsRecords ==
    {[body |-> b, Event |-> NoneVal, has_Records |-> FALSE, Records |-> <<>>] :
        b \in {"missing", "unparsable"}} \cup
    {[body |-> "json", Event |-> e, has_Records |-> FALSE, Records |-> <<>>] :
        e \in {NoneVal, "s3:TestEvent"}} \cup
    {[body |-> "json", Event |-> NoneVal, has_Records |-> TRUE, Records |-> rs] :
        rs \in S3EventLists} \cup
    {[body |-> "json", Event |-> "s3:TestEvent", has_Records |-> TRUE,
      Records |-> <<[bucket |-> "bucket", key |-> "k1"]>>]}

VARIABLES
    \* --- config.py
    environ,            \* os.environ when the modules were imported
    \* --- the database (committed state) and its schema
    keyed,              \* document_chunks has a unique key (document_id, chunk_index)
    documents,          \* documents rows: status, error_message, page_count, chunk_count
    document_chunks,    \* set of document_chunks rows
    \* --- database/client.py
    global_connection,  \* _global_connection: [st, txn]
    \* --- lambda_handler
    pc,                 \* position of the invocation
    delivered,          \* records delivered so far, over all invocations
    nrecords,           \* len(event['Records'])
    i,                  \* index of the record being handled (1-based)
    results,            \* results
    failed_count,       \* failed_count
    skipped,            \* records skipped as s3:TestEvent (not a program variable)
    tally,              \* what the batch was made of so far (not a program variable)
    response,           \* the response of the invocation that ended last
    \* --- process_document
    s3_key,
    document_id,
    temp_file_path,     \* NoneVal or "path"
    scratch,            \* TRUE when the scratch file made by this run exists
    ndocuments,         \* len(documents) returned by loader.load()
    chunks,             \* chunk texts made by the splitter
    embeddings,         \* vectors returned by embed_documents
    chunk_count,        \* value returned by bulk_insert_chunks
    exc,                \* the exception in flight (NoExc when there is none)
    result,             \* the dictionary process_document returns
    \* --- history of the current record / run, for stating the claims
    hist

vars == <<environ, keyed, documents, document_chunks, global_connection,
          pc, delivered, nrecords, i, results, failed_count, skipped, tally,
          response, s3_key, document_id, temp_file_path, scratch, ndocuments, chunks,
          embeddings, chunk_count, exc, result, hist>>

\* ---------------------------------------------------------------- config.py
\* the environment variables Config reads; a variable is Unset or has a value
EnvNames == {"AWS_REGION", "S3_BUCKET_NAME", "DB_HOST", "DB_PORT", "DB_NAME", "DB_USER",
             "DB_PASSWORD", "OPENAI_API_KEY"}

Unset == "unset"

\* the second argument of os.environ.get(name, default)
EnvDefault ==
    [n \in EnvNames |->
        CASE n = "AWS_REGION" -> "us-east-1"
          [] n = "DB_PORT"    -> "5432"
          [] n = "DB_NAME"    -> "doctalk"
          [] n = "DB_USER"    -> "postgres"
          [] OTHER            -> ""]

\* the class attributes of Config, evaluated once, at import
Config == [n \in EnvNames |-> IF environ[n] = Unset THEN EnvDefault[n] ELSE environ[n]]

\* validate_config that requires nothing
validate_config_nothing(cfg) == {}

\* Config.validate_config(): the names of `missing`; ValueError is raised when
\* the set is not empty
validate_config(cfg) ==
    {n \in {"S3_BUCKET_NAME", "DB_HOST", "DB_PASSWORD", "OPENAI_API_KEY"} : cfg[n] = ""}

\* an environment with every variable set
AllSet == [n \in EnvNames |-> "value"]

\* the environments of the deployments looked at: one of the variables without
\* a default is not set, or none of the variables with a default is
Environs ==
    {[AllSet EXCEPT ![n] = Unset] :
        n \in {"S3_BUCKET_NAME", "DB_HOST", "DB_PASSWORD", "OPENAI_API_KEY"}} \cup
    {[n \in EnvNames |-> IF EnvDefault[n] # "" THEN Unset ELSE "value"]}

\* ------------------------------------------------------- database/client.py
\* _global_connection is modelled by two fields:
\*   st  = "none"    _global_connection is None
\*         "live"    an open connection whose server side answers
\*         "stale"   an open connection (closed = 0) whose server side is gone
\*         "closed"  a connection psycopg2 has marked closed (closed != 0)
\*   txn = "idle" | "intrans" | "inerror"   the transaction status of a live one
NoConn   == [st |-> "none",   txn |-> "idle"]
NewConn  == [st |-> "live",   txn |-> "idle"]
DeadConn == [st |-> "closed", txn |-> "idle"]

ConnStates == {NoConn, DeadConn, [st |-> "stale", txn |-> "idle"]} \cup
              [st : {"live"}, txn : {"idle", "intrans", "inerror"}]

\* what the server answers to one statement
DbOutcomes == {"ok", "error", "lost"}

\* the outcomes <<connectOk, out>> one database operation on connection c can
\* meet: psycopg2.connect is called, and can fail, only when c cannot be reused
DbEnv(c) ==
    {<<TRUE, out>> : out \in DbOutcomes} \cup
    (IF c.st \in {"none", "closed"} THEN {<<FALSE, "ok">>} ELSE {})

\* get_db_connection(): reuse when `.isolation_level` can be read (the connection
\* is not marked closed), otherwise drop it and connect anew.
get_db_connection(c, connectOk) ==
    IF c.st \in {"live", "stale"}
    THEN [raised |-> NoneVal, conn |-> c]
    ELSE IF connectOk
         THEN [raised |-> NoneVal, conn |-> NewConn]
         ELSE [raised |-> "DatabaseError", conn |-> NoConn]

\* cur.execute on a connection get_db_connection returned. A statement sent in
\* an aborted transaction is refused (InFailedSqlTransaction) whatever it is.
execute(c, out) ==
    IF c.st = "stale"
    THEN [ok |-> FALSE, conn |-> DeadConn, cause |-> "env"]
    ELSE IF c.txn = "inerror"
    THEN [ok |-> FALSE, conn |-> c, cause |-> "aborted"]
    ELSE IF out = "ok"
    THEN [ok |-> TRUE, conn |-> [c EXCEPT !.txn = "intrans"], cause |-> NoneVal]
    ELSE IF out = "error"
    THEN [ok |-> FALSE, conn |-> [c EXCEPT !.txn = "inerror"], cause |-> "env"]
    ELSE [ok |-> FALSE, conn |-> DeadConn, cause |-> "env"]

\* conn.commit() and conn.rollback() end the transaction; rollback() on a
\* connection marked closed raises InterfaceError out of the except clause.
commit(c) == [c EXCEPT !.txn = "idle"]

rollback(c) ==
    IF c.st = "closed"
    THEN [raised |-> "InterfaceError", conn |-> c]
    ELSE [raised |-> "DatabaseError", conn |-> [c EXCEPT !.txn = "idle"]]

\* --------------------------------------------------- database/operations.py
\* a SELECT whose WHERE clause is too wide: a key that no document has gets
\* the row of another document
get_document_by_s3_key_any_row(c, key, connectOk, out) ==
    LET g == get_db_connection(c, connectOk) IN
    IF g.raised # NoneVal
    THEN [raised |-> g.raised, conn |-> g.conn, row |-> NoneVal, cause |-> "env"]
    ELSE LET e == execute(g.conn, out) IN
         IF e.ok
         THEN [raised |-> NoneVal, conn |-> e.conn,
               row |-> IF DocOfKey(key) = "none" THEN "d1" ELSE DocOfKey(key),
               cause |-> NoneVal]
         ELSE [raised |-> "DatabaseError", conn |-> e.conn, row |-> NoneVal,
               cause |-> e.cause]

\* get_document_by_s3_key: one SELECT, no commit and no rollback
get_document_by_s3_key(c, key, connectOk, out) ==
    LET g == get_db_connection(c, connectOk) IN
    IF g.raised # NoneVal
    THEN [raised |-> g.raised, conn |-> g.conn, row |-> NoneVal, cause |-> "env"]
    ELSE LET e == execute(g.conn, out) IN
         IF e.ok
         THEN [raised |-> NoneVal, conn |-> e.conn, row |-> DocOfKey(key),
               cause |-> NoneVal]
         ELSE [raised |-> "DatabaseError", conn |-> e.conn, row |-> NoneVal,
               cause |-> e.cause]

\* the UPDATE of update_document_status: all four columns are assigned
UpdatedRow(status, msg, npages, nchunks) ==
    [status |-> status, error_message |-> msg, page_count |-> npages, chunk_count |-> nchunks]

\* update_document_status with an UPDATE whose WHERE clause matches no row: it
\* commits, logs a warning and returns False, which no caller looks at
update_document_status_no_match(docs, c, id, set, connectOk, out) ==
    LET g == get_db_connection(c, connectOk) IN
    IF g.raised # NoneVal
    THEN [raised |-> g.raised, conn |-> g.conn, documents |-> docs,
          result |-> FALSE, cause |-> "env"]
    ELSE LET e == execute(g.conn, out) IN
         IF e.ok
         THEN [raised |-> NoneVal, conn |-> commit(e.conn), documents |-> docs,
               result |-> FALSE, cause |-> NoneVal]
         ELSE LET r == rollback(e.conn) IN
              [raised |-> r.raised, conn |-> r.conn, documents |-> docs,
               result |-> FALSE, cause |-> e.cause]

\* update_document_status with SET column = COALESCE(%s, column): an argument
\* that is not passed leaves its column as it was
update_document_status_coalesce(docs, c, id, set, connectOk, out) ==
    LET g == get_db_connection(c, connectOk) IN
    IF g.raised # NoneVal
    THEN [raised |-> g.raised, conn |-> g.conn, documents |-> docs,
          result |-> FALSE, cause |-> "env"]
    ELSE LET e == execute(g.conn, out) IN
         IF e.ok
         THEN [raised |-> NoneVal, conn |-> commit(e.conn),
               documents |-> IF id \in DOMAIN docs
                             THEN [docs EXCEPT ![id] =
                                       [status |-> set[1],
                                        error_message |-> IF set[2] = NoneVal
                                                          THEN @.error_message ELSE set[2],
                                        page_count |-> IF set[3] = -1
                                                       THEN @.page_count ELSE set[3],
                                        chunk_count |-> IF set[4] = -1
                                                        THEN @.chunk_count ELSE set[4]]]
                             ELSE docs,
               result |-> id \in DOMAIN docs, cause |-> NoneVal]
         ELSE LET r == rollback(e.conn) IN
              [raised |-> r.raised, conn |-> r.conn, documents |-> docs,
               result |-> FALSE, cause |-> e.cause]

\* update_document_status(document_id, status, error_message, page_count, chunk_count);
\* set is <<status, error_message, page_count, chunk_count>>
update_document_status(docs, c, id, set, connectOk, out) ==
    LET g == get_db_connection(c, connectOk) IN
    IF g.raised # NoneVal
    THEN [raised |-> g.raised, conn |-> g.conn, documents |-> docs,
          result |-> FALSE, cause |-> "env"]
    ELSE LET e == execute(g.conn, out) IN
         IF e.ok
         THEN [raised |-> NoneVal, conn |-> commit(e.conn),
               documents |-> IF id \in DOMAIN docs
                             THEN [docs EXCEPT ![id] =
                                       UpdatedRow(set[1], set[2], set[3], set[4])]
                             ELSE docs,
               result |-> id \in DOMAIN docs, cause |-> NoneVal]
         ELSE LET r == rollback(e.conn) IN
              [raised |-> r.raised, conn |-> r.conn, documents |-> docs,
               result |-> FALSE, cause |-> e.cause]

\* SQL NULL in the integer columns page_count and chunk_count
NullInt == -1

\* SQL NULL in the vector column embedding
NullVector == <<NoneVal>>

\* rows of document_chunks that belong to document id
ChunksOf(rows, id) == {r \in rows : r.document_id = id}

\* a commit that loses the rows of the transaction
CommitRowsLost(rows, written) == rows

\* conn.commit() makes the rows written in the transaction part of the store;
\* conn.rollback() (or the loss of the connection) discards them
CommitRows(rows, written) == rows \cup written

\* a rollback that does not take place (an autocommit connection): the rows
\* written before the failure stay
RollbackRowsKept(rows, written) == rows \cup written

RollbackRows(rows, written) == rows

\* the tuple bulk_insert_chunks builds of one chunk: a falsy embedding becomes NULL.
\* `run` stands for the columns the INSERT leaves to their defaults (id,
\* created_at), which tell the rows of one run from those of another.
DataRow(id, chunk, run) ==
    [document_id |-> id, content |-> chunk.content,
     embedding |-> IF chunk.embedding = <<>> THEN NullVector ELSE chunk.embedding,
     chunk_index |-> chunk.chunk_index, run |-> run]

\* the first statement of the batch that violates the unique key
\* (document_id, chunk_index), Len(data) + 1 when none does
FirstCollision(rows, data, uniq) ==
    LET hit == {j \in 1..Len(data) :
                   uniq /\ \E r \in rows : /\ r.document_id = data[j].document_id
                                           /\ r.chunk_index = data[j].chunk_index}
    IN IF hit = {} THEN Len(data) + 1 ELSE CHOOSE j \in hit : \A h \in hit : j <= h

\* bulk_insert_chunks(document_id, chunks). env = <<connectOk, out, k>>: when the
\* server fails a statement (out # "ok") it is statement k + 1 of the batch.
bulk_insert_chunks(rows, c, id, db_chunks, uniq, run, env) ==
    IF db_chunks = <<>>
    THEN [raised |-> NoneVal, conn |-> c, document_chunks |-> rows, result |-> 0,
          cause |-> NoneVal, written |-> {}]
    ELSE
    LET g == get_db_connection(c, env[1]) IN
    IF g.raised # NoneVal
    THEN [raised |-> g.raised, conn |-> g.conn, document_chunks |-> rows,
          result |-> 0, cause |-> "env", written |-> {}]
    ELSE
    LET data == [j \in 1..Len(db_chunks) |-> DataRow(id, db_chunks[j], run)]
        e0   == execute(g.conn, "ok")
        col  == FirstCollision(rows, data, uniq)
        bad  == IF env[2] = "ok" THEN Len(data) + 1 ELSE env[3] + 1
        stop == IF ~e0.ok THEN 1 ELSE IF bad <= col THEN bad ELSE col
        e    == IF ~e0.ok THEN e0
                ELSE IF bad <= col THEN execute(g.conn, env[2])
                ELSE execute(g.conn, "error")
        written == {data[j] : j \in 1..(stop - 1)}
    IN
    IF stop > Len(data)
    THEN [raised |-> NoneVal, conn |-> commit(e.conn),
          document_chunks |-> CommitRows(rows, written), result |-> Len(db_chunks),
          cause |-> NoneVal, written |-> written]
    ELSE LET r == rollback(e.conn) IN
         [raised |-> r.raised, conn |-> r.conn,
          document_chunks |-> RollbackRows(rows, written), result |-> 0,
          cause |-> IF ~e0.ok THEN e0.cause
                    ELSE IF bad <= col THEN "env" ELSE "collision",
          written |-> written]

\* ------------------------------------------------------ lambda_function.py
\* an exception in flight: its class, the stage that raised it, and why the
\* stage failed ("env": the collaborator failed; "aborted": the connection was
\* left in an aborted transaction; "collision": the unique key; "input": the
\* document itself). NoExc when there is none.
NoExc == [type |-> NoneVal, at |-> NoneVal, cause |-> NoneVal]

Exc(type, at, cause) == [type |-> type, at |-> at, cause |-> cause]

\* str(e): the message of an exception; every exception the stages raise
\* carries a message
Str(e) == e.at

\* the page content of chunk j of document id, and the vector the provider
\* computes of a text
Text(id, j) == <<id, j>>

Vector(text) == <<"vector", text[1], text[2]>>

\* text_splitter.split_documents(documents): the chunks of a document whose
\* stored object splits into n chunks
split_documents(id, n) == [j \in 1..n |-> Text(id, j)]

\* what embeddings_model.embed_documents(texts) can return: the vectors of the
\* first m texts, in order (the caller does not check that m = len(texts))
EmbedReturns(texts) == {[j \in 1..m |-> Vector(texts[j])] : m \in 0..Len(texts)}

Min(a, b) == IF a <= b THEN a ELSE b

\* the errors of the embedding provider that embed_documents raises: one that
\* is transient (rate limit, timeout, 5xx) and one that is not (authentication,
\* malformed input, quota)
ProviderErrors == {"RateLimitError", "AuthenticationError"}

TransientErrors == {"RateLimitError"}

\* enumerate(..., 1): the index of the first chunk is 1
prepare_db_chunks_from_one(cs, es) ==
    [j \in 1..Min(Len(cs), Len(es)) |->
        [content |-> cs[j], embedding |-> es[j], chunk_index |-> j]]

\* db_chunks: enumerate(zip(chunks, embeddings))
prepare_db_chunks(cs, es) ==
    [j \in 1..Min(Len(cs), Len(es)) |->
        [content |-> cs[j], embedding |-> es[j], chunk_index |-> j - 1]]

\* page metadata of a chunk: NullInt when the chunk carries none
PageVals == {NullInt, 0, 1, 2}

\* the page metadata of the n chunks of a document, which come in the order of
\* the pages
PageAssignments(n) ==
    {pages \in [1..n -> PageVals] : \A j \in 1..(n - 1) : pages[j] <= pages[j + 1]}

\* the largest page value of the chunks (NullInt, the least, when none has one)
MaxPage(pages) ==
    CHOOSE m \in {pages[j] : j \in DOMAIN pages} :
        \A j \in DOMAIN pages : pages[j] <= m

\* page_count = max(page_numbers) if page_numbers else len(documents), with
\* page_numbers the truthy page values of the chunks
page_count_of(pages, nunits) ==
    LET page_numbers == {pages[j] : j \in DOMAIN pages} \ {NullInt, 0}
    IN IF page_numbers # {}
       THEN CHOOSE m \in page_numbers : \A q \in page_numbers : q <= m
       ELSE nunits

\* the marker is never recognised (compared with another spelling)
is_test_event_never(record) == FALSE

\* message_body.get('Event') == 's3:TestEvent'
is_test_event(record) == record.Event = "s3:TestEvent"

\* [-1] in the place of [0]: the last notification of the list
last_s3_event(record) ==
    IF ~record.has_Records THEN <<[bucket |-> NoneVal, key |-> NoneVal]>>
    ELSE IF record.Records = <<>> THEN <<>>
    ELSE <<record.Records[Len(record.Records)]>>

\* s3_event = message_body.get('Records', [{}])[0]: the first notification of
\* the list, an empty notification when the body has no list; <<>> stands for
\* the IndexError an empty list raises
first_s3_event(record) ==
    IF ~record.has_Records THEN <<[bucket |-> NoneVal, key |-> NoneVal]>>
    ELSE IF record.Records = <<>> THEN <<>>
    ELSE <<record.Records[1]>>

\* `and` in the place of `or`: a notification is invalid only when it has
\* neither bucket nor key
invalid_s3_event_both_missing(s3_bucket, key) == s3_bucket = NoneVal /\ key = NoneVal

\* if not s3_bucket or not s3_key
invalid_s3_event(s3_bucket, key) == s3_bucket = NoneVal \/ key = NoneVal

\* the head of the loop body, up to the metadata lookup: what becomes of one
\* SQS record. outcome "raise" is an exception for the except clause of the
\* loop, "skip" and "invalid" are the two `continue`s, "key" goes on to the lookup
parse_record(record) ==
    IF record.body = "missing"
    THEN [outcome |-> "raise", raised |-> "KeyError", s3_key |-> NoneVal]
    ELSE IF record.body = "unparsable"
    THEN [outcome |-> "raise", raised |-> "JSONDecodeError", s3_key |-> NoneVal]
    ELSE IF is_test_event(record)
    THEN [outcome |-> "skip", raised |-> NoneVal, s3_key |-> NoneVal]
    ELSE LET first == first_s3_event(record) IN
         IF first = <<>>
         THEN [outcome |-> "raise", raised |-> "IndexError", s3_key |-> NoneVal]
         ELSE IF invalid_s3_event(first[1].bucket, first[1].key)
         THEN [outcome |-> "invalid", raised |-> NoneVal, s3_key |-> NoneVal]
         ELSE [outcome |-> "key", raised |-> NoneVal, s3_key |-> first[1].key]

\* the serial number of the record being handled, over all invocations
RunId == delivered - nrecords + i

NoResponse == [statusCode |-> 0, success |-> 0, total |-> 0, failed_count |-> 0]

\* the response to a configuration error: statusCode 500 and a body with
\* 'error' only
ErrorResponse == [statusCode |-> 500, success |-> NullInt, total |-> NullInt,
                  failed_count |-> NullInt]

\* a summary that reports 200 as soon as one document was processed
summary_ok_if_any(res, nfailed, total) ==
    [statusCode |-> IF nfailed = 0 \/ Len(res) > 0 THEN 200 ELSE 207,
     success |-> Len(res), total |-> total, failed_count |-> nfailed]

\* a summary that always reports 200
summary_always_200(res, nfailed, total) ==
    [statusCode |-> 200, success |-> Len(res), total |-> total, failed_count |-> nfailed]

\* the summary lambda_handler returns: statusCode, and of the body the number
\* of results, the total of the message and failed_count
summary(res, nfailed, total) ==
    [statusCode |-> IF nfailed = 0 THEN 200 ELSE 207,
     success |-> Len(res), total |-> total, failed_count |-> nfailed]

\* ---- what the claims need to know of a record, told from the record itself
\* the record carries the test-event marker
TestEventRecord(record) == record.body = "json" /\ record.Event = "s3:TestEvent"

\* the record is malformed: no body, a body that does not parse, no or an
\* empty notification list, a first notification without bucket or key
MalformedRecord(record) ==
    /\ ~TestEventRecord(record)
    /\ \/ record.body # "json"
       \/ ~record.has_Records
       \/ record.Records = <<>>
       \/ record.Records[1].bucket = NoneVal
       \/ record.Records[1].key = NoneVal

\* "test", "malformed", "missing" (a well-formed reference to a key no document
\* has) or "reference" (a well-formed reference to a document)
RecordKind(record) ==
    IF TestEventRecord(record) THEN "test"
    ELSE IF MalformedRecord(record) THEN "malformed"
    ELSE IF DocOfKey(record.Records[1].key) = "none" THEN "missing"
    ELSE "reference"

\* the batch so far: the references to documents it held, how many of them to
\* a document of an unsupported type, the documents referenced, and whether a
\* collaborator failed or a stage failed for another reason than the type;
\* returned: the calls of process_document that returned normally, of runs calls
NoTally == [refs |-> 0, unsupported |-> 0, docs |-> {}, faults |-> FALSE, returned |-> 0,
            runs |-> 0]

Tallied(t, record) ==
    IF RecordKind(record) # "reference" THEN t
    ELSE LET d == DocOfKey(record.Records[1].key) IN
         [t EXCEPT !.refs = @ + 1, !.docs = @ \cup {d},
                   !.unsupported = IF file_type[d] \in loaders THEN @ ELSE @ + 1]

\* the counters, the connection and the store as they were when the handling
\* of a record began
NoEntry == [i |-> 0, failed_count |-> 0, nresults |-> 0, skipped |-> 0, conn |-> NoConn,
            documents |-> [d \in Docs |-> UpdatedRow("pending", NoneVal, NullInt, NullInt)],
            document_chunks |-> {}]

NoResult == [document_id |-> NoneVal, status |-> NoneVal, page_count |-> NullInt,
             chunk_count |-> NullInt]

\* what the claims need to know of the run in progress: the attempts to write
\* 'failed', the exception the except clause caught, the exception of that
\* write, the rows a failed bulk insert had written before it failed, and the
\* committed rows of document_chunks when process_document was entered
\* kind and entry: the kind of the record being handled, and the state its
\* handling began in (kept while no run of process_document has begun for it);
\* max_page: the largest page number the chunks of a run that returned carry,
\* NullInt when none carries one; embed_calls: the calls of embed_documents the run made
\* further: the notifications after the first one of the record whose first
\* notification is being looked up or processed;
\* call: a database operation called on its own, with what it returned
NoCall == [op |-> NoneVal, id |-> NoneVal, set |-> <<>>, raised |-> NoneVal,
           returned |-> FALSE]

NoHist == [failed_writes |-> 0, primary |-> NoExc, secondary |-> NoExc, written |-> {},
           before |-> {}, kind |-> NoneVal, entry |-> NoEntry, max_page |-> NullInt,
           embed_calls |-> 0, further |-> 0, call |-> NoCall]

TypeOK ==
    /\ keyed \in BOOLEAN
    /\ \A d \in Docs : documents[d].status \in {"pending", "processing", "ready", "failed"}
    /\ global_connection \in ConnStates
    /\ pc \in {"idle", "record", "lookup", "start", "fetch", "parse", "chunk", "embed",
               "insert", "ready", "except", "account"}
    /\ delivered \in 0..MaxRecords
    /\ failed_count \in 0..MaxRecords

\* the state of a fresh execution context started in environment env
ColdStart(env) ==
    /\ environ = env
    /\ keyed \in BOOLEAN
    /\ documents = [d \in Docs |-> UpdatedRow("pending", NoneVal, NullInt, NullInt)]
    /\ document_chunks = {}
    /\ global_connection = NoConn
    /\ pc = "idle"
    /\ delivered = 0
    /\ nrecords = 0
    /\ i = 1
    /\ results = <<>>
    /\ failed_count = 0
    /\ skipped = 0
    /\ tally = NoTally
    /\ response = NoResponse
    /\ s3_key = NoneVal
    /\ document_id = NoneVal
    /\ temp_file_path = NoneVal
    /\ scratch = FALSE
    /\ ndocuments = 0
    /\ chunks = <<>>
    /\ embeddings = <<>>
    /\ chunk_count = 0
    /\ exc = NoExc
    /\ result = NoResult
    /\ hist = NoHist

\* a context of a deployment with every variable set
Init == ColdStart(AllSet)

\* a context of a deployment that leaves a variable unset
InitEnv == \E env \in Environs : ColdStart(env)

store  == <<keyed, documents, document_chunks>>
batch  == <<delivered, nrecords, i, results, failed_count, skipped, tally, response>>
locals == <<s3_key, document_id, temp_file_path, scratch, ndocuments, chunks,
            embeddings, chunk_count, exc, result, hist>>

\* the locals of process_document before a record is handled
ResetLocals ==
    /\ s3_key' = NoneVal
    /\ document_id' = NoneVal
    /\ temp_file_path' = NoneVal
    /\ scratch' = FALSE
    /\ ndocuments' = 0
    /\ chunks' = <<>>
    /\ embeddings' = <<>>
    /\ chunk_count' = 0
    /\ exc' = NoExc
    /\ result' = NoResult
    /\ hist' = NoHist

\* lambda_handler is invoked with an event of n records: Config.validate_config(),
\* whose ValueError ends the invocation with the error response; otherwise the
\* loop over the records begins
Invoke ==
    /\ pc = "idle"
    /\ \E n \in 0..(MaxRecords - delivered) :
        /\ nrecords' = n
        /\ delivered' = delivered + n
    /\ i' = 1
    /\ results' = <<>>
    /\ failed_count' = 0
    /\ skipped' = 0
    /\ tally' = NoTally
    /\ IF validate_config(Config) # {}
       THEN response' = ErrorResponse /\ pc' = "idle"
       ELSE response' = NoResponse /\ pc' = "record"
    /\ ResetLocals
    /\ UNCHANGED <<environ, store, global_connection>>

\* for record in event['Records']: the body is parsed; a test event is skipped,
\* a notification without bucket or key is counted as failed, an exception goes
\* to the except clause of the loop
NextRecord ==
    /\ pc = "record"
    /\ i <= nrecords
    /\ \E record \in SqsRecords :
        LET p == parse_record(record) IN
        /\ hist' = [NoHist EXCEPT
                       !.kind = RecordKind(record),
                       !.further = IF p.outcome = "key"
                                   THEN Len(record.Records) - 1 ELSE 0,
                       !.entry = [i |-> i, failed_count |-> failed_count,
                                  nresults |-> Len(results), skipped |-> skipped,
                                  conn |-> global_connection, documents |-> documents,
                                  document_chunks |-> document_chunks]]
        /\ tally' = Tallied(tally, record)
        /\ CASE p.outcome = "skip" ->
                   /\ skipped' = skipped + 1
                   /\ i' = i + 1
                   /\ UNCHANGED <<pc, failed_count, s3_key, exc>>
             [] p.outcome = "invalid" ->
                   /\ failed_count' = failed_count + 1
                   /\ i' = i + 1
                   /\ UNCHANGED <<pc, skipped, s3_key, exc>>
             [] p.outcome = "raise" ->
                   /\ exc' = Exc(p.raised, "record", "input")
                   /\ pc' = "account"
                   /\ UNCHANGED <<i, failed_count, skipped, s3_key>>
             [] p.outcome = "key" ->
                   /\ s3_key' = p.s3_key
                   /\ pc' = "lookup"
                   /\ UNCHANGED <<i, failed_count, skipped, exc>>
    /\ UNCHANGED <<environ, store, global_connection, delivered, nrecords, results, response,
                   document_id, temp_file_path, scratch, ndocuments, chunks,
                   embeddings, chunk_count, result>>

\* the summary returned after the last record
Return ==
    /\ pc = "record"
    /\ i > nrecords
    /\ response' = summary(results, failed_count, nrecords)
    /\ pc' = "idle"
    /\ hist' = NoHist
    /\ UNCHANGED <<environ, store, global_connection, delivered, nrecords, i, results,
                   failed_count, skipped, tally, s3_key, document_id, temp_file_path,
                   scratch, ndocuments, chunks, embeddings, chunk_count, exc, result>>

\* doc_data = get_document_by_s3_key(s3_key); a missing document is counted as
\* failed, an exception goes to the handler's except clause
Lookup ==
    /\ pc = "lookup"
    /\ \E env \in DbEnv(global_connection) :
        LET r == get_document_by_s3_key(global_connection, s3_key, env[1], env[2]) IN
        /\ global_connection' = r.conn
        /\ IF r.raised # NoneVal
           THEN /\ exc' = Exc(r.raised, "lookup", r.cause)
                /\ pc' = "account"
                /\ UNCHANGED <<document_id, failed_count, i>>
           ELSE IF r.row = "none"
           THEN /\ failed_count' = failed_count + 1
                /\ i' = i + 1
                /\ pc' = "record"
                /\ UNCHANGED <<document_id, exc>>
           ELSE /\ document_id' = r.row
                /\ pc' = "start"
                /\ UNCHANGED <<exc, failed_count, i>>
        /\ hist' = IF r.raised = NoneVal /\ r.row # "none"
                   THEN [hist EXCEPT !.before = document_chunks, !.entry = NoEntry]
                   ELSE [hist EXCEPT !.further = 0]
        /\ tally' = IF r.raised # NoneVal THEN [tally EXCEPT !.faults = TRUE]
                    ELSE IF r.row # "none" THEN [tally EXCEPT !.runs = @ + 1]
                    ELSE tally
    /\ UNCHANGED <<environ, store, delivered, nrecords, results, skipped, response, s3_key,
                   temp_file_path, scratch, ndocuments, chunks, embeddings,
                   chunk_count, result>>

\* update_document_status(document_id, 'processing')
StartStatus ==
    /\ pc = "start"
    /\ \E env \in DbEnv(global_connection) :
        LET r == update_document_status(documents, global_connection, document_id,
                     <<"processing", NoneVal, NullInt, NullInt>>, env[1], env[2]) IN
        /\ global_connection' = r.conn
        /\ documents' = r.documents
        /\ IF r.raised # NoneVal
           THEN exc' = Exc(r.raised, "start", r.cause) /\ pc' = "except"
           ELSE exc' = exc /\ pc' = "fetch"
    /\ UNCHANGED <<environ, keyed, document_chunks, batch, s3_key,
                   document_id, temp_file_path, scratch, ndocuments, chunks,
                   embeddings, chunk_count, result, hist>>

\* temp_file_path = download_from_s3(bucket, s3_key): the scratch file is made
\* by NamedTemporaryFile(delete=False) before s3_client.download_file runs
Download ==
    /\ pc = "fetch"
    /\ scratch' = TRUE
    /\ \E transferred \in BOOLEAN :
        IF transferred
        THEN temp_file_path' = "path" /\ exc' = exc /\ pc' = "parse"
        ELSE /\ temp_file_path' = temp_file_path
             /\ exc' = Exc("ClientError", "fetch", "env")
             /\ pc' = "except"
    /\ UNCHANGED <<environ, store, global_connection, batch, s3_key, document_id, ndocuments,
                   chunks, embeddings, chunk_count, result, hist>>

\* loader = get_loader_for_file_type(...); documents = loader.load():
\* a type outside the loaders dictionary and an empty result raise ParsingError,
\* an exception of the loader propagates as it is
Load ==
    /\ pc = "parse"
    /\ IF file_type[document_id] \notin loaders
       THEN /\ exc' = Exc("ParsingError", "loader", "input")
            /\ pc' = "except"
            /\ UNCHANGED ndocuments
       ELSE \E n \in -1..MaxUnits :
            IF n = -1
            THEN /\ exc' = Exc("LoaderException", "parse", "input")
                 /\ pc' = "except"
                 /\ UNCHANGED ndocuments
            ELSE IF n = 0
            THEN /\ exc' = Exc("ParsingError", "parse", "input")
                 /\ pc' = "except"
                 /\ UNCHANGED ndocuments
            ELSE /\ ndocuments' = n
                 /\ pc' = "chunk"
                 /\ UNCHANGED exc
    /\ UNCHANGED <<environ, store, global_connection, batch, s3_key, document_id,
                   temp_file_path, scratch, chunks, embeddings, chunk_count, result,
                   hist>>

\* chunks = text_splitter.split_documents(documents): the object stored under
\* the key at this time splits into n chunks; no chunk raises ParsingError
Split ==
    /\ pc = "chunk"
    /\ \E n \in 0..MaxChunks : chunks' = split_documents(document_id, n)
    /\ IF chunks' = <<>>
       THEN exc' = Exc("ParsingError", "chunk", "input") /\ pc' = "except"
       ELSE exc' = exc /\ pc' = "embed"
    /\ UNCHANGED <<environ, store, global_connection, batch, s3_key, document_id,
                   temp_file_path, scratch, ndocuments, embeddings, chunk_count,
                   result, hist>>

\* embeddings = embeddings_model.embed_documents(texts): one call, whose
\* exception propagates as it is
Embed ==
    /\ pc = "embed"
    /\ hist' = [hist EXCEPT !.embed_calls = @ + 1]
    /\ \/ /\ \E e \in ProviderErrors : exc' = Exc(e, "embed", "env")
          /\ pc' = "except"
          /\ UNCHANGED embeddings
       \/ /\ \E es \in EmbedReturns(chunks) : embeddings' = es
          /\ pc' = "insert"
          /\ UNCHANGED exc
    /\ UNCHANGED <<environ, store, global_connection, batch, s3_key, document_id,
                   temp_file_path, scratch, ndocuments, chunks, chunk_count, result>>

\* chunk_count = bulk_insert_chunks(document_id, db_chunks)
Insert ==
    /\ pc = "insert"
    /\ \E env \in DbEnv(global_connection), k \in 0..(MaxChunks - 1) :
        LET db_chunks == prepare_db_chunks(chunks, embeddings)
            r == bulk_insert_chunks(document_chunks, global_connection, document_id,
                                    db_chunks, keyed, RunId, <<env[1], env[2], k>>)
        IN
        /\ k = 0 \/ (k < Len(db_chunks) /\ env[1] /\ env[2] # "ok")
        /\ global_connection' = r.conn
        /\ document_chunks' = r.document_chunks
        /\ IF r.raised # NoneVal
           THEN /\ exc' = Exc(r.raised, "insert", r.cause)
                /\ hist' = [hist EXCEPT !.written = r.written]
                /\ pc' = "except"
                /\ UNCHANGED chunk_count
           ELSE /\ chunk_count' = r.result
                /\ pc' = "ready"
                /\ UNCHANGED <<exc, hist>>
    /\ UNCHANGED <<environ, keyed, documents, batch, s3_key, document_id,
                   temp_file_path, scratch, ndocuments, chunks, embeddings, result>>

\* finally: the file is unlinked when temp_file_path is set and the file
\* exists; the value is whether the scratch file exists afterwards
Finally(path, file) == IF path # NoneVal /\ file THEN FALSE ELSE file

\* page_count, then update_document_status(document_id, 'ready', page_count=...,
\* chunk_count=...), the dictionary returned and the finally clause
ReadyStatus ==
    /\ pc = "ready"
    /\ \E pages \in PageAssignments(Len(chunks)), env \in DbEnv(global_connection) :
        LET page_count == page_count_of(pages, ndocuments)
            r == update_document_status(documents, global_connection, document_id,
                     <<"ready", NoneVal, page_count, chunk_count>>, env[1], env[2])
        IN
        /\ global_connection' = r.conn
        /\ documents' = r.documents
        /\ hist' = IF r.raised = NoneVal
                   THEN [hist EXCEPT !.max_page = MaxPage(pages)] ELSE hist
        /\ tally' = IF r.raised = NoneVal
                    THEN [tally EXCEPT !.returned = @ + 1] ELSE tally
        /\ IF r.raised # NoneVal
           THEN /\ exc' = Exc(r.raised, "ready", r.cause)
                /\ pc' = "except"
                /\ UNCHANGED <<result, scratch>>
           ELSE /\ result' = [document_id |-> document_id, status |-> "ready",
                              page_count |-> page_count, chunk_count |-> chunk_count]
                /\ scratch' = Finally(temp_file_path, scratch)
                /\ pc' = "account"
                /\ UNCHANGED exc
    /\ UNCHANGED <<environ, keyed, document_chunks, delivered, nrecords, i, results,
                   failed_count, skipped, response, s3_key,
                   document_id, temp_file_path, ndocuments, chunks,
                   embeddings, chunk_count>>

\* the bare `raise` of the except clause re-raises the exception caught, also
\* when the status write failed in between
\* `raise` placed inside the inner except clause: the exception of the status
\* write is the one re-raised
ReraisedSecondary(primary, secondary) == IF secondary # NoExc THEN secondary ELSE primary

Reraised(primary, secondary) == primary

\* except Exception as e: one update_document_status(document_id, 'failed',
\* error_message=str(e)) whose own failure is logged, then raise, through the
\* finally clause
Except ==
    /\ pc = "except"
    /\ \E env \in DbEnv(global_connection) :
        LET r == update_document_status(documents, global_connection, document_id,
                     <<"failed", Str(exc), NullInt, NullInt>>, env[1], env[2])
            secondary == IF r.raised # NoneVal
                         THEN Exc(r.raised, "failed_write", r.cause) ELSE NoExc
        IN
        /\ global_connection' = r.conn
        /\ documents' = r.documents
        /\ hist' = [hist EXCEPT !.failed_writes = hist.failed_writes + 1,
                                 !.primary = exc, !.secondary = secondary]
        /\ exc' = Reraised(exc, secondary)
        /\ tally' = IF exc.at # "loader" \/ secondary # NoExc
                    THEN [tally EXCEPT !.faults = TRUE] ELSE tally
    /\ scratch' = Finally(temp_file_path, scratch)
    /\ pc' = "account"
    /\ UNCHANGED <<environ, keyed, document_chunks, delivered, nrecords, i, results,
                   failed_count, skipped, response, s3_key,
                   document_id, temp_file_path, ndocuments, chunks,
                   embeddings, chunk_count, result>>

\* back in lambda_handler: results.append(result), or the except clause of the
\* loop counts the record as failed
Account ==
    /\ pc = "account"
    /\ IF exc = NoExc
       THEN results' = Append(results, result) /\ UNCHANGED failed_count
       ELSE failed_count' = failed_count + 1 /\ UNCHANGED results
    /\ i' = i + 1
    /\ pc' = "record"
    /\ s3_key' = NoneVal
    /\ document_id' = NoneVal
    /\ temp_file_path' = NoneVal
    /\ scratch' = FALSE
    /\ ndocuments' = 0
    /\ chunks' = <<>>
    /\ embeddings' = <<>>
    /\ chunk_count' = 0
    /\ exc' = NoExc
    /\ result' = NoResult
    /\ hist' = IF document_id = NoneVal
               THEN [NoHist EXCEPT !.kind = hist.kind, !.entry = hist.entry]
               ELSE NoHist
    /\ UNCHANGED <<environ, store, global_connection, delivered, nrecords, skipped, tally,
                   response>>

\* between two invocations the server side of the open connection goes away
\* (idle timeout, failover); psycopg2 learns of it at the next statement. A
\* loss during an invocation is the outcome "lost" of the statement it hits.
ConnectionDrops ==
    /\ pc = "idle"
    /\ global_connection.st = "live"
    /\ global_connection' = [st |-> "stale", txn |-> "idle"]
    /\ UNCHANGED <<environ, store, pc, batch, locals>>

Next ==
    \/ Invoke
    \/ NextRecord
    \/ Return
    \/ Lookup
    \/ StartStatus
    \/ Download
    \/ Load
    \/ Split
    \/ Embed
    \/ Insert
    \/ ReadyStatus
    \/ Except
    \/ Account
    \/ ConnectionDrops

Spec == Init /\ [][Next]_vars

\* the same program in the contexts of the deployments of Environs
SpecEnv == InitEnv /\ [][Next]_vars

\* ---- the database operations called on their own, in any order
\* an id no row of documents has (the row was deleted after the lookup)
NoSuchDoc == "d0"

\* the arguments <<status, error_message, page_count, chunk_count>> of the
\* three calls of update_document_status in process_document
StatusWrites ==
    {<<"processing", NoneVal, NullInt, NullInt>>, <<"failed", "fetch", NullInt, NullInt>>} \cup
    {<<"ready", NoneVal, 1, n>> : n \in {0, MaxChunks}}

\* one call of update_document_status
CallUpdateDocumentStatus ==
    /\ \E id \in Docs \cup {NoSuchDoc}, set \in StatusWrites,
          env \in DbEnv(global_connection) :
        LET r == update_document_status(documents, global_connection, id, set,
                                        env[1], env[2]) IN
        /\ global_connection' = r.conn
        /\ documents' = r.documents
        /\ hist' = [NoHist EXCEPT
                       !.entry = [NoEntry EXCEPT !.documents = documents,
                                                 !.document_chunks = document_chunks],
                       !.call = [op |-> "update_document_status", id |-> id, set |-> set,
                                 raised |-> r.raised, returned |-> r.result]]
    /\ UNCHANGED <<environ, keyed, document_chunks, pc, batch, s3_key, document_id,
                   temp_file_path, scratch, ndocuments, chunks, embeddings,
                   chunk_count, exc, result>>

\* one call of bulk_insert_chunks with the chunks of a document of MaxChunks
\* chunks
CallBulkInsertChunks ==
    /\ \E id \in Docs, env \in DbEnv(global_connection) :
        LET cs == split_documents(id, MaxChunks)
            db_chunks == prepare_db_chunks(cs, [j \in 1..MaxChunks |-> Vector(cs[j])])
            r == bulk_insert_chunks(document_chunks, global_connection, id, db_chunks,
                                    keyed, 0, <<env[1], env[2], 0>>)
        IN
        /\ global_connection' = r.conn
        /\ document_chunks' = r.document_chunks
    /\ hist' = NoHist
    /\ UNCHANGED <<environ, keyed, documents, pc, batch, s3_key, document_id,
                   temp_file_path, scratch, ndocuments, chunks, embeddings,
                   chunk_count, exc, result>>

NextOps ==
    \/ CallUpdateDocumentStatus
    \/ CallBulkInsertChunks

\* the operations of database/operations.py under any sequence of calls with
\* the arguments process_document passes
SpecOps == Init /\ [][NextOps]_vars

\* ------------------------------------------------------------- the claims
\* process_document has returned or raised for the current record
RunEnded == pc = "account" /\ document_id # NoneVal

RunSucceeded == RunEnded /\ exc = NoExc

\* the rows the current run hands to bulk_insert_chunks
RunRows ==
    LET db_chunks == prepare_db_chunks(chunks, embeddings)
    IN {DataRow(document_id, db_chunks[j], RunId) : j \in 1..Len(db_chunks)}

\* C1: when a document that an earlier record of the batch processed
\* successfully is processed successfully again on unchanged content (as many
\* chunks as the earlier run stored, a vector for each), its stored chunk rows
\* are exactly the rows of the latest run: no row of an earlier run, no
\* chunk_index twice, as many rows as a fresh run makes.
C1_ReprocessingReplacesChunks ==
    (/\ RunSucceeded
     /\ Len(embeddings) = Len(chunks)
     /\ \E j \in 1..Len(results) : /\ results[j].document_id = document_id
                                   /\ results[j].chunk_count = Len(chunks))
        => ChunksOf(document_chunks, document_id) = RunRows

\* C2: a document whose status is 'ready' (here: with a chunk_count of at
\* least one) has chunk_count equal to the number of its stored chunk rows, and
\* none of those rows has a NULL embedding.
C2_ReadyCountMatchesRows ==
    \A d \in Docs :
        (documents[d].status = "ready" /\ documents[d].chunk_count >= 1) =>
            /\ documents[d].chunk_count = Cardinality(ChunksOf(document_chunks, d))
            /\ \A r \in ChunksOf(document_chunks, d) : r.embedding # NullVector

\* C3: the chunk_index values of the rows of a 'ready' document (here: with a
\* chunk_count of at least one) are exactly 0..chunk_count-1, each carried by
\* one row.
C3_ReadyIndexesContiguous ==
    \A d \in Docs :
        (documents[d].status = "ready" /\ documents[d].chunk_count >= 1) =>
            /\ {r.chunk_index : r \in ChunksOf(document_chunks, d)}
                   = 0..(documents[d].chunk_count - 1)
            /\ \A r1, r2 \in ChunksOf(document_chunks, d) :
                   r1.chunk_index = r2.chunk_index => r1 = r2

\* C4: in the first batch a context handles, a record that fails fails for a
\* reason of its own (its collaborators, its document), never because of the
\* aborted transaction an earlier record of the batch left on the connection.
C4_SiblingFailureIsolated ==
    (pc = "account" /\ exc # NoExc /\ delivered = nrecords) => exc.cause # "aborted"

\* C5: when fetch, loader selection, parse, chunking or embedding fails and the
\* 'failed' status write goes through, the document ends 'failed' with a
\* message and has no chunk row at all, whatever it had before the run.
C5_EarlyFailureLeavesNoChunks ==
    (/\ RunEnded
     /\ exc.at \in {"fetch", "loader", "parse", "chunk", "embed"}
     /\ hist.secondary = NoExc)
        => /\ documents[document_id].status = "failed"
           /\ documents[document_id].error_message # NoneVal
           /\ ChunksOf(document_chunks, document_id) = {}

\* the transitions of the status state machine
StatusTransitions ==
    {<<"pending", "processing">>, <<"processing", "ready">>, <<"processing", "failed">>,
     <<"failed", "processing">>, <<"ready", "processing">>}

\* C6: every change of a document's stored status is one of the transitions
\* pending->processing, processing->ready, processing->failed,
\* failed->processing, ready->processing.
C6_StatusTransitionsAllowed ==
    [][\A d \in Docs :
          documents'[d].status # documents[d].status =>
              <<documents[d].status, documents'[d].status>> \in StatusTransitions]_vars

\* the run's first status write went through: the run got past it
SetProcessing == RunEnded /\ (exc = NoExc \/ exc.at # "start")

\* C7 as stated: a run that set the status to 'processing' leaves it 'ready'
\* or 'failed' when it returns or raises.
C7_NeverLeftProcessing ==
    SetProcessing => documents[document_id].status \in {"ready", "failed"}

\* C7 amended: a run that set the status to 'processing' leaves it 'ready' when
\* it returns, 'failed' when it raises and its write of 'failed' went through,
\* and 'processing' when that one write failed.
C7_LeftProcessingOnlyIfFailedWriteFails ==
    SetProcessing =>
        IF exc = NoExc THEN documents[document_id].status = "ready"
        ELSE IF hist.secondary = NoExc THEN documents[document_id].status = "failed"
        ELSE documents[document_id].status \in {"processing", "failed"}

C7_Witness ==
    /\ SetProcessing
    /\ hist.secondary # NoExc
    /\ documents[document_id].status = "processing"

\* C8: no scratch file made during a run exists when the run has ended.
C8_ScratchFileRemoved == RunEnded => ~scratch

C10_PrimaryExceptionPropagates ==
    RunEnded =>
        IF exc = NoExc
        THEN hist.failed_writes = 0
        ELSE /\ hist.failed_writes = 1
             /\ exc = hist.primary
             /\ exc.at \in {"start", "fetch", "loader", "parse", "chunk", "embed",
                            "insert", "ready"}
             /\ hist.secondary = NoExc =>
                    /\ documents[document_id].status = "failed"
                    /\ documents[document_id].error_message = Str(hist.primary)

C10_Witness ==
    /\ RunEnded
    /\ exc.at = "embed"
    /\ hist.secondary # NoExc
    /\ hist.secondary.at = "failed_write"

\* lambda_handler has returned the summary of a batch
Returned == pc = "idle" /\ response.statusCode \in {200, 207}

\* the store is as it was when the handling of the current record began
StoreAsAtEntry ==
    documents = hist.entry.documents /\ document_chunks = hist.entry.document_chunks

\* no stage of process_document has left a trace for the current record
NoStageRan ==
    /\ document_id = NoneVal
    /\ temp_file_path = NoneVal
    /\ ~scratch
    /\ ndocuments = 0
    /\ chunks = <<>>
    /\ embeddings = <<>>

\* C11: when lambda_handler returns for a batch of N references to documents,
\* k of them to a document of an unsupported type, in which nothing else went
\* wrong (no collaborator failed, no stage failed for another reason), the
\* response holds N-k results and failed_count = k, statusCode is 207 when
\* k > 0 and 200 when k = 0, and every document referenced is 'ready' when its
\* type is supported and 'failed' when it is not.
C11_PartialBatch ==
    (Returned /\ tally.refs = nrecords /\ ~tally.faults) =>
        /\ Len(results) = nrecords - tally.unsupported
        /\ response.success = nrecords - tally.unsupported
        /\ response.failed_count = tally.unsupported
        /\ response.statusCode = IF tally.unsupported > 0 THEN 207 ELSE 200
        /\ \A d \in tally.docs :
               documents[d].status = IF file_type[d] \in loaders THEN "ready" ELSE "failed"

\* a batch of two references, one to a document of an unsupported type
C11_Witness ==
    /\ Returned
    /\ ~tally.faults
    /\ tally.refs = nrecords
    /\ nrecords >= 2
    /\ tally.unsupported = 1
    /\ response.statusCode = 207

\* C12: a record with the test-event marker is passed over: after it the
\* connection (no lookup), the store (no status change, no chunk), the results
\* and failed_count are what they were before it, and the handler is at the
\* next record; and the total of a summary is the number of records of the
\* event, test events included, which are in neither results nor failed_count.
C12_TestEventSkipped ==
    /\ hist.kind = "test" =>
           /\ pc = "record"
           /\ i = hist.entry.i + 1
           /\ failed_count = hist.entry.failed_count
           /\ Len(results) = hist.entry.nresults
           /\ global_connection = hist.entry.conn
           /\ StoreAsAtEntry
           /\ NoStageRan
    /\ Returned =>
           /\ response.total = nrecords
           /\ response.success + response.failed_count <= nrecords - skipped

\* a batch of a test event and a document that was processed
C12_Witness ==
    /\ Returned
    /\ skipped = 1
    /\ response.total = 2
    /\ response.success = 1

\* C13: a malformed record never gets to the metadata lookup or to a stage
\* (the connection and the store stay as they were), it is either counted at
\* once or caught by the except clause of the loop, and when the handler is at
\* the next record failed_count is one more than before and results is unchanged.
C13_MalformedCountedOnce ==
    hist.kind = "malformed" =>
        /\ pc \in {"record", "account"}
        /\ global_connection = hist.entry.conn
        /\ StoreAsAtEntry
        /\ NoStageRan
        /\ Len(results) = hist.entry.nresults
        /\ IF pc = "record"
           THEN failed_count = hist.entry.failed_count + 1 /\ i = hist.entry.i + 1
           ELSE /\ exc.at = "record"
                /\ failed_count = hist.entry.failed_count
                /\ i = hist.entry.i

\* a malformed record was counted as one failure and the loop is at the
\* next record of the batch
C13_Witness ==
    /\ hist.kind = "malformed"
    /\ pc = "record"
    /\ i <= nrecords
    /\ failed_count = hist.entry.failed_count + 1

\* C14: for a well-formed notification whose key no document has, no stage
\* runs and the store stays as it was, and when the handler is at the next
\* record failed_count is one more than before and results is unchanged.
C14_MissingDocumentCountedOnce ==
    hist.kind = "missing" =>
        /\ pc \in {"lookup", "record", "account"}
        /\ StoreAsAtEntry
        /\ NoStageRan
        /\ Len(results) = hist.entry.nresults
        /\ IF pc = "record"
           THEN failed_count = hist.entry.failed_count + 1 /\ i = hist.entry.i + 1
           ELSE /\ failed_count = hist.entry.failed_count
                /\ i = hist.entry.i
                /\ pc = "account" => exc.at = "lookup"

\* the lookup ran, found no document, and the record was counted
C14_Witness ==
    /\ hist.kind = "missing"
    /\ pc = "record"
    /\ global_connection.txn = "intrans"
    /\ failed_count = hist.entry.failed_count + 1

\* the invocations of this context have done nothing but return the error
\* response: no record was parsed, the connection was never opened, the store
\* is as it was at the start
BatchesAborted ==
    /\ pc = "idle"
    /\ response \in {NoResponse, ErrorResponse}
    /\ delivered > 0 => response = ErrorResponse
    /\ global_connection = NoConn
    /\ \A d \in Docs : documents[d].status = "pending"
    /\ document_chunks = {}
    /\ NoStageRan
    /\ hist = NoHist
    /\ tally = NoTally
    /\ results = <<>> /\ failed_count = 0 /\ skipped = 0

\* C15 as stated: when one of region, bucket name, database host, port, name,
\* user, password or API key is not set, every invocation is aborted with the
\* error response before any record is handled.
C15_MissingConfigAborts ==
    (\E n \in EnvNames : environ[n] = Unset) => BatchesAborted

\* C15 amended: when one of the values validate_config requires (bucket name,
\* database host, database password, API key) is missing, every invocation is
\* aborted with the error response before any record is handled.
C15_MissingRequiredConfigAborts ==
    (\E n \in {"S3_BUCKET_NAME", "DB_HOST", "DB_PASSWORD", "OPENAI_API_KEY"} :
        Config[n] = "") => BatchesAborted

\* an event with records was answered with the error response
C15_Witness ==
    /\ Config["DB_PASSWORD"] = ""
    /\ nrecords >= 1
    /\ response = ErrorResponse

\* the committed rows of the run in progress
StoredByRun == {r \in document_chunks : r.document_id = document_id /\ r.run = RunId}

\* C16: after a successful run (one that stored a row for every chunk) the
\* page_count of the document is the largest page number its chunks carry, 0
\* included, and the number of units the loader returned when no chunk carries
\* a page number.
C16_PageCountIsMaxPage ==
    (RunSucceeded /\ chunk_count = Len(chunks)) =>
        documents[document_id].page_count =
            IF hist.max_page # NullInt THEN hist.max_page ELSE ndocuments

\* C17: a run that ends with the document 'ready' has stored as many rows as
\* the splitter made chunks; a run whose embedder returned fewer vectors than
\* there are texts does not end that way.
C17_NoChunkDropped ==
    RunSucceeded =>
        /\ Cardinality(StoredByRun) = Len(chunks)
        /\ Len(embeddings) = Len(chunks)

\* C18: every row the run has stored carries, under chunk_index i, the content
\* of chunk i of the splitter and the vector at position i of what the
\* embedder returned (i counted from 0).
C18_OrderPreserved ==
    document_id # NoneVal =>
        \A r \in StoredByRun :
            /\ r.chunk_index + 1 \in 1..Min(Len(chunks), Len(embeddings))
            /\ r.content = chunks[r.chunk_index + 1]
            /\ r.embedding = embeddings[r.chunk_index + 1]

\* the run stored the rows of two chunks
C18_Witness ==
    /\ pc = "ready"
    /\ Len(chunks) = 2
    /\ Cardinality(StoredByRun) = 2

\* C19: a run that failed in the embedding stage had retried a transient
\* provider error at least once, and raises a provider error that is not
\* transient after one call, as EmbeddingError.
C19_EmbeddingRetryPolicy ==
    (RunEnded /\ exc.at = "embed") =>
        IF hist.primary.type \in TransientErrors
        THEN hist.embed_calls >= 2
        ELSE hist.embed_calls = 1 /\ exc.type = "EmbeddingError"

\* C20: whenever a database operation is about to ask for the connection, the
\* connection get_db_connection returns to it, if it returns one, is live.
C20_AcquiredConnectionIsLive ==
    pc \in {"lookup", "start", "insert", "ready", "except"} =>
        \A connectOk \in BOOLEAN :
            LET g == get_db_connection(global_connection, connectOk) IN
            g.raised = NoneVal => g.conn.st = "live"

\* C21: a run that fails in the parser was given a content type outside the
\* loaders dictionary and raises UnsupportedTypeError, or its loader threw or
\* returned no unit and it raises ParsingError; no chunking, embedding or
\* insert ran for the document, and (its write of 'failed' having gone
\* through) the document ends 'failed'.
C21_ParserErrorOutcomes ==
    (RunEnded /\ exc.at \in {"loader", "parse"} /\ hist.secondary = NoExc) =>
        /\ exc.type = IF file_type[document_id] \notin loaders
                      THEN "UnsupportedTypeError" ELSE "ParsingError"
        /\ chunks = <<>>
        /\ embeddings = <<>>
        /\ document_chunks = hist.before
        /\ documents[document_id].status = "failed"

\* C22: within one run the 'processing' write comes first, before anything
\* is fetched; what a stage makes is there only when every stage before it has
\* succeeded (a file only after the 'processing' write, units only of a file,
\* chunks only of units, vectors only of chunks, rows only of vectors); no
\* stage after a failed one leaves anything; and 'ready' is written only when
\* every row the run handed to the insert is committed.
C22_StageOrdering ==
    document_id # NoneVal =>
        LET status == documents[document_id].status IN
        /\ pc \in {"start", "fetch"} => ~scratch /\ temp_file_path = NoneVal
        /\ pc \in {"fetch", "parse", "chunk", "embed", "insert", "ready"} =>
               status = "processing" /\ exc = NoExc
        /\ exc.at = "start" => ~scratch
        /\ temp_file_path # NoneVal => scratch \/ pc = "account"
        /\ exc.at \in {"start", "fetch"} => temp_file_path = NoneVal
        /\ ndocuments > 0 => temp_file_path # NoneVal
        /\ exc.at \in {"loader", "parse"} => ndocuments = 0
        /\ chunks # <<>> => ndocuments > 0 /\ pc # "chunk"
        /\ embeddings # <<>> => chunks # <<>> /\ pc # "embed" /\ exc.at # "embed"
        /\ StoredByRun # {} =>
               /\ embeddings # <<>>
               /\ pc \in {"ready", "except", "account"}
               /\ exc.at \in {NoneVal, "ready"}
        /\ exc.at \in {"start", "fetch", "loader", "parse", "chunk", "embed", "insert"} =>
               StoredByRun = {}
        /\ pc = "ready" => RunRows \subseteq document_chunks /\ chunk_count = Cardinality(RunRows)
        /\ (status = "ready" /\ pc # "start" /\ exc.at # "start") =>
               /\ RunSucceeded
               /\ RunRows \subseteq document_chunks
               /\ documents[document_id].chunk_count = Cardinality(RunRows)

\* a run went through every stage: two chunks stored, then 'ready' written
C22_Witness ==
    /\ RunSucceeded
    /\ Len(chunks) = 2
    /\ Cardinality(StoredByRun) = 2
    /\ documents[document_id].status = "ready"

\* C23: with a valid configuration every record handled so far is in exactly
\* one of results, failed_count and the skipped test events; when the handler
\* returns for N records the three add up to N, results holds one object for
\* every call of process_document that returned normally, each with status
\* 'ready', and statusCode is 200 when failed_count = 0 and 207 otherwise.
C23_BatchAccounting ==
    /\ pc = "record" => Len(results) + failed_count + skipped = i - 1
    /\ Returned =>
           /\ Len(results) + failed_count + skipped = nrecords
           /\ response.success = Len(results)
           /\ response.failed_count = failed_count
           /\ Len(results) = tally.returned
           /\ \A j \in 1..Len(results) : results[j].status = "ready"
           /\ response.statusCode = IF failed_count = 0 THEN 200 ELSE 207

\* a batch of two records, one processed and one failed, was answered 207
C23_Witness ==
    /\ Returned
    /\ nrecords = 2
    /\ Len(results) = 1
    /\ failed_count = 1
    /\ response.statusCode = 207

\* C24: between two database operations (every state of the model: an
\* operation is one step) the shared connection has no open and no aborted
\* transaction.
C24_OperationsLeaveNoTransaction == global_connection.txn = "idle"

\* C25: a call of update_document_status that returns has assigned all four
\* columns of the row it matched, the ones not passed to NULL, and left every
\* other row alone; when it matched no row it returned False and the table is
\* as it was; when it raised the table is as it was. Consequently a document
\* in 'processing' or 'failed' has NULL page_count and chunk_count, whatever
\* chunk rows it has, and a document in 'ready' has a NULL error_message.
C25_StatusWriteSetsAllFields ==
    /\ \A d \in Docs :
           /\ documents[d].status \in {"processing", "failed"} =>
                  documents[d].page_count = NullInt /\ documents[d].chunk_count = NullInt
           /\ documents[d].status = "ready" => documents[d].error_message = NoneVal
    /\ hist.call.op = "update_document_status" =>
           LET id == hist.call.id
               set == hist.call.set
               old == hist.entry.documents
           IN
           /\ document_chunks = hist.entry.document_chunks
           /\ \A d \in Docs \ {id} : documents[d] = old[d]
           /\ IF hist.call.raised # NoneVal THEN documents = old
              ELSE IF id \in Docs
              THEN /\ hist.call.returned
                   /\ documents[id].status = set[1]
                   /\ documents[id].error_message = set[2]
                   /\ documents[id].page_count = set[3]
                   /\ documents[id].chunk_count = set[4]
              ELSE ~hist.call.returned /\ documents = old

\* a call for an id no row has returned False, while a document that was
\* 'ready' with a chunk_count is 'failed' with its chunk rows and no counts
C25_Witness ==
    /\ hist.call.op = "update_document_status"
    /\ hist.call.id = NoSuchDoc
    /\ hist.call.raised = NoneVal
    /\ ~hist.call.returned
    /\ documents["d1"].status = "failed"
    /\ documents["d1"].chunk_count = NullInt
    /\ ChunksOf(document_chunks, "d1") # {}
    /\ documents["d2"].status = "ready"

\* the records of the batch whose handling has begun, less the one in hand
Handled == IF pc \in {"record", "idle"} THEN i - 1 ELSE i

\* C26: the calls of process_document, and the records counted in results
\* or failed_count, are never more than the records handled; of a record with
\* a further notification only the first is looked up and processed, never
\* the further one; and in the first batch of a context a document that no
\* record names in its first notification is not touched.
C26_OneRunPerRecord ==
    /\ tally.runs <= Handled
    /\ Len(results) + failed_count <= Handled
    /\ pc = "record" => Len(results) + failed_count <= i - 1
    /\ hist.further > 0 =>
           /\ s3_key # FurtherKey
           /\ document_id # DocOfKey(FurtherKey)
    /\ document_id # NoneVal => document_id \in tally.docs
    /\ \A d \in Docs \ tally.docs :
           delivered = nrecords =>
               /\ documents[d].status = "pending"
               /\ ChunksOf(document_chunks, d) = {}

\* the run for the first notification of a record with two has ended, and
\* the document of the further one is as it was
C26_Witness ==
    /\ RunEnded
    /\ hist.further = 1
    /\ tally.runs = 1
    /\ i = 1
    /\ nrecords = 1
    /\ documents[DocOfKey(FurtherKey)].status = "pending"

====
